---------------------------- MODULE Spec2Model ----------------------------
(***************************************************************************)
(* A model of the generic 2D grid engine of adventofcode-2020:             *)
(* geometry::Map<T> (construction from text, indexing, Display, the        *)
(* whole-grid callbacks), the flood fill Map::reachable_from and the A*    *)
(* search Map::navigate.                                                   *)
(*                                                                         *)
(* Three specifications share the grid variables tiles/width/height:       *)
(*   Spec       the life of a Map: input text, the constructors, index     *)
(*              reads and writes, for_each_mut, for_each_point_mut,        *)
(*              Display;                                                   *)
(*   SpecReach  one call of reachable_from, one loop iteration per step;   *)
(*   SpecNav    one call of navigate, one loop iteration per step.         *)
(***************************************************************************)
EXTENDS Integers, Sequences, FiniteSets, TLC

VARIABLES
    phase,      \* "input" | "built" | "failed" | "panicked" | "scan" | "nav" |
                \* "crt" | "constraint" | "conway" | "geom"
    input,      \* the lines of the text handed to Map::try_from
    tiles,      \* Map::tiles, a Vec<T> (index i of the Vec is tiles[i + 1])
    width,      \* Map::width
    height,     \* Map::height
    origin,     \* how the tiles came to be: "none" | "try_from" | "new" |
                \* "default" | "from" | "written" (history, not program state)
    result,     \* what the last operation returned
    scan,       \* the locals of reachable_from_ctx
    nav,        \* the locals of navigate_ctx
    crt,        \* the arguments and locals of chinese_remainder, or of
                \* Constraint::new_invert_remainder
    space,      \* a ConwaySpace and its predecessor
    geom        \* a point, vector or direction, the function applied to it
                \* and what it returned

vars == <<phase, input, tiles, width, height, origin, result, scan, nav,
          crt, space, geom>>

(***************************************************************************)
(* Bounds of the model.                                                    *)
(***************************************************************************)
\* most tiles of a constructed Map, and most characters of an input text
MaxTiles == 5
\* most lines of an input text
MaxLines == 3

(***************************************************************************)
(* Helpers on sequences.                                                   *)
(***************************************************************************)
SeqsUpTo(S, n) == UNION {[1..k -> S] : k \in 0..n}

RECURSIVE SumLen(_)
SumLen(ss) == IF ss = <<>> THEN 0 ELSE Len(Head(ss)) + SumLen(Tail(ss))

\* Vec::reverse
Reverse(s) == [i \in 1..Len(s) |-> s[Len(s) + 1 - i]]

RECURSIVE Flatten(_)
Flatten(ss) == IF ss = <<>> THEN <<>> ELSE Head(ss) \o Flatten(Tail(ss))

(***************************************************************************)
(* Tiles of the text-built maps: a two-valued tile with a fallible         *)
(* conversion from a character and a one-character display rule.           *)
(***************************************************************************)
Chars == {"#", ".", "x", "y"}
BoolTiles == {"True", "False"}

\* T::try_from(ch): '#' and '.' are tiles, any other character is an error
\* that names the character
TileFromChar(ch) ==
    IF ch = "#" THEN [ok |-> TRUE, val |-> "True", err |-> "none"]
    ELSE IF ch = "." THEN [ok |-> TRUE, val |-> "False", err |-> "none"]
    ELSE [ok |-> FALSE, val |-> "none", err |-> ch]

\* the tile's Display: True is "#", False is "."
TileDisplay(t) == IF t = "True" THEN "#" ELSE "."

\* T::default()
TileDefault == "False"

\* impl Not for Bool
TileNot(t) == IF t = "True" THEN "False" ELSE "True"

(***************************************************************************)
(* Points.                                                                 *)
(***************************************************************************)
Pt(x, y) == [x |-> x, y |-> y]

(***************************************************************************)
(* Map: index arithmetic.                                                  *)
(***************************************************************************)
\* Map::point2index (x, y are usize, small enough here not to overflow)
point2index(w, x, y) == x + (y * w)

\* Map::index2point with the two coordinates exchanged
index2point_transposed(w, idx) == <<idx \div w, idx % w>>

\* Map::index2point
index2point(w, idx) == <<idx % w, idx \div w>>

\* impl From<(usize, usize)> for Point
PointFromPair(pr) == Pt(pr[1], pr[2])

\* Map::in_bounds with the upper limits included
in_bounds_inclusive(w, h, point) ==
    /\ point.x >= 0
    /\ point.y >= 0
    /\ point.x <= w
    /\ point.y <= h

\* Map::in_bounds
in_bounds(w, h, point) ==
    /\ point.x >= 0
    /\ point.y >= 0
    /\ point.x < w
    /\ point.y < h

\* Map::bottom_left
bottom_left == Pt(0, 0)

\* Map::top_left
top_left(h) == Pt(0, h - 1)

\* Index<(usize, usize)>: Vec::index panics when the index is not below len
IndexPair(ts, w, x, y) ==
    LET i == point2index(w, x, y) IN
    IF i < Len(ts) THEN [panic |-> FALSE, idx |-> i, val |-> ts[i + 1]]
    ELSE [panic |-> TRUE, idx |-> i, val |-> "none"]

\* Index<Point>: asserts the positive quadrant, then indexes by pair
IndexPoint(ts, w, point) ==
    IF ~(point.x >= 0 /\ point.y >= 0)
    THEN [panic |-> TRUE, idx |-> -1, val |-> "none"]
    ELSE IndexPair(ts, w, point.x, point.y)

(***************************************************************************)
(* Map: constructors.                                                      *)
(***************************************************************************)
MkMap(ts, w, h) == [tiles |-> ts, width |-> w, height |-> h]

\* Map::new
MapNew(w, h) == MkMap([i \in 1..(w * h) |-> TileDefault], w, h)

\* #[derive(Default)]
MapDefault == MkMap(<<>>, 0, 0)

\* mutant of MapFrom: the rectangularity assertion is missing
MapFromUnchecked(source) ==
    IF Len(source) = 0 THEN [panic |-> FALSE, map |-> MkMap(<<>>, 0, 0)]
    ELSE [panic |-> FALSE,
          map |-> MkMap(Flatten(source), Len(source[1]), Len(source))]

\* Map::from without the early return for no rows: source[0] is read first
MapFromFirstRow(source) ==
    LET h == Len(source) IN
    IF h = 0 THEN [panic |-> TRUE, map |-> MkMap(<<>>, 0, 0)]
    ELSE LET w == Len(source[1]) IN
         IF ~(\A i \in 1..h : Len(source[i]) = w)
         THEN [panic |-> TRUE, map |-> MkMap(<<>>, 0, 0)]
         ELSE [panic |-> FALSE, map |-> MkMap(Flatten(source), w, h)]

\* impl From<&[R]> for Map<T>
MapFrom(source) ==
    LET h == Len(source) IN
    IF h = 0 THEN [panic |-> FALSE, map |-> MkMap(<<>>, 0, 0)]
    ELSE LET w == Len(source[1]) IN
         IF ~(\A i \in 1..h : Len(source[i]) = w)
         THEN [panic |-> TRUE, map |-> MkMap(<<>>, 0, 0)]
         ELSE [panic |-> FALSE, map |-> MkMap(Flatten(source), w, h)]

\* mutant of ConvertLine: the loop goes on after a failed conversion and
\* the last error wins
RECURSIVE ConvertLineLastErr(_, _)
ConvertLineLastErr(line, row) ==
    IF line = <<>> THEN [ok |-> TRUE, row |-> row, err |-> "none"]
    ELSE LET t == TileFromChar(Head(line))
             rest == ConvertLineLastErr(Tail(line), Append(row, t.val)) IN
         IF t.ok \/ ~rest.ok THEN rest
         ELSE [ok |-> FALSE, row |-> <<>>, err |-> t.err]

\* the loop over line.chars(): the row, or the first conversion error
RECURSIVE ConvertLine(_, _)
ConvertLine(line, row) ==
    IF line = <<>> THEN [ok |-> TRUE, row |-> row, err |-> "none"]
    ELSE LET t == TileFromChar(Head(line)) IN
         IF t.ok THEN ConvertLine(Tail(line), Append(row, t.val))
         ELSE [ok |-> FALSE, row |-> <<>>, err |-> t.err]

\* mutant of ReadLines: empty rows are pushed too
RECURSIVE ReadLinesKeepEmpty(_, _)
ReadLinesKeepEmpty(lines, arr) ==
    IF lines = <<>> THEN [ok |-> TRUE, arr |-> arr, err |-> "none"]
    ELSE LET c == ConvertLine(Head(lines), <<>>) IN
         IF ~c.ok THEN [ok |-> FALSE, arr |-> <<>>, err |-> c.err]
         ELSE ReadLinesKeepEmpty(Tail(lines), Append(arr, c.row))

\* the loop over input.lines(): empty rows are not pushed
RECURSIVE ReadLines(_, _)
ReadLines(lines, arr) ==
    IF lines = <<>> THEN [ok |-> TRUE, arr |-> arr, err |-> "none"]
    ELSE LET c == ConvertLine(Head(lines), <<>>) IN
         IF ~c.ok THEN [ok |-> FALSE, arr |-> <<>>, err |-> c.err]
         ELSE ReadLines(Tail(lines),
                        IF c.row # <<>> THEN Append(arr, c.row) ELSE arr)

ErrTileConversion(e) == [ok |-> FALSE, kind |-> "TileConversion", err |-> e,
                         map |-> MkMap(<<>>, 0, 0)]
ErrNotRectangular == [ok |-> FALSE, kind |-> "NotRectangular", err |-> "none",
                      map |-> MkMap(<<>>, 0, 0)]
OkMap(m) == [ok |-> TRUE, kind |-> "Ok", err |-> "none", map |-> m]
\* the assertion of Map::from fired inside try_from
PanicInFrom == [ok |-> FALSE, kind |-> "Panic", err |-> "none",
                map |-> MkMap(<<>>, 0, 0)]

\* mutant of RowsRectangular: only the last row is compared with the first
RowsRectangularLastOnly(arr) ==
    arr = <<>> \/ Len(arr[Len(arr)]) = Len(arr[1])

\* the rectangularity test of Map::try_from
RowsRectangular(arr) ==
    arr = <<>> \/ \A i \in 1..Len(arr) : Len(arr[i]) = Len(arr[1])

\* mutant of TryFromText: the rows are not reversed
TryFromTextNoReverse(lines) ==
    LET r == ReadLines(lines, <<>>) IN
    IF ~r.ok THEN ErrTileConversion(r.err)
    ELSE IF ~RowsRectangular(r.arr) THEN ErrNotRectangular
    ELSE LET m == MapFrom(r.arr) IN
         IF m.panic THEN PanicInFrom ELSE OkMap(m.map)

\* Map::try_from(input: BufRead)
TryFromText(lines) ==
    LET r == ReadLines(lines, <<>>) IN
    IF ~r.ok THEN ErrTileConversion(r.err)
    ELSE IF ~RowsRectangular(r.arr) THEN ErrNotRectangular
    ELSE LET m == MapFrom(Reverse(r.arr)) IN
         IF m.panic THEN PanicInFrom ELSE OkMap(m.map)

(***************************************************************************)
(* Map: Display.                                                           *)
(***************************************************************************)
\* one rendered row: the tiles of row y from x = 0, then a newline
DisplayRow(ts, w, y) ==
    [x \in 1..w |-> TileDisplay(IndexPair(ts, w, x - 1, y).val)] \o <<"\n">>

\* impl Display for Map<T>: rows from height-1 down to 0
RECURSIVE DisplayRows(_, _, _)
DisplayRows(ts, w, n) ==
    IF n = 0 THEN <<>>
    ELSE DisplayRow(ts, w, n - 1) \o DisplayRows(ts, w, n - 1)

\* mutant of MapDisplay: rows from 0 up to height-1
MapDisplayAscending(ts, w, h) ==
    Flatten([y \in 1..h |-> DisplayRow(ts, w, y - 1)])

MapDisplay(ts, w, h) == DisplayRows(ts, w, h)

(***************************************************************************)
(* Map: whole-grid callbacks.                                              *)
(***************************************************************************)
\* the update closures handed to for_each_mut
TileUpdates == [BoolTiles -> BoolTiles]

\* Map::for_each_mut
ForEachMutTiles(ts, f) == [i \in 1..Len(ts) |-> f[ts[i]]]

\* a closure for for_each_point_mut: negate the tile at q, keep the others
UpdateAt(q, t, p) == IF p = q THEN TileNot(t) ELSE t

\* the calls of the closure of for_each_point and for_each_point_mut, in
\* order: the tile and the point it is called with
ForEachPointCalls(ts, w) ==
    [i \in 1..Len(ts) |-> [tile |-> ts[i], point |-> PointFromPair(index2point(w, i - 1))]]

\* Map::for_each_point_mut
ForEachPointMutTiles(ts, w, q) ==
    [i \in 1..Len(ts) |-> UpdateAt(q, ts[i], PointFromPair(index2point(w, i - 1)))]

(***************************************************************************)
(* Spec: the life of a Map.                                                *)
(***************************************************************************)
ScanIdle == [status |-> "idle"]
NavIdle == [status |-> "idle"]
NoResult == [op |-> "none"]
CrtIdle == [status |-> "idle"]
SpaceIdle == [status |-> "idle"]
GeomIdle == [status |-> "idle"]

\* coordinates tried by the index operations: up to one step outside the map
XCoords == -1..(width + 1)
YCoords == -1..(height + 1)
UXCoords == 0..(width + 1)
UYCoords == 0..(height + 1)

Init ==
    /\ phase = "input"
    /\ input = <<>>
    /\ tiles = <<>>
    /\ width = 0
    /\ height = 0
    /\ origin = "none"
    /\ result = NoResult
    /\ scan = ScanIdle
    /\ nav = NavIdle
    /\ crt = CrtIdle
    /\ space = SpaceIdle
    /\ geom = GeomIdle

\* the caller's text grows by one line (it may be empty)
Provide ==
    /\ phase = "input"
    /\ Len(input) < MaxLines
    /\ \E line \in SeqsUpTo(Chars, MaxTiles - SumLen(input)) :
           input' = Append(input, line)
    /\ UNCHANGED <<phase, tiles, width, height, origin, result, scan, nav, crt, space, geom>>

\* Map::try_from(input)
TryFrom ==
    /\ phase = "input"
    /\ LET r == TryFromText(input) IN
       /\ phase' = IF r.ok THEN "built"
                  ELSE IF r.kind = "Panic" THEN "panicked" ELSE "failed"
       /\ tiles' = r.map.tiles
       /\ width' = r.map.width
       /\ height' = r.map.height
       /\ origin' = IF r.ok THEN "try_from" ELSE "none"
       /\ result' = [op |-> "try_from", ok |-> r.ok, kind |-> r.kind, err |-> r.err]
    /\ UNCHANGED <<input, scan, nav, crt, space, geom>>

\* Map::new(w, h)
New ==
    /\ phase = "input"
    /\ input = <<>>
    /\ \E w \in 0..MaxTiles, h \in 0..MaxTiles :
           /\ w * h <= MaxTiles
           /\ tiles' = MapNew(w, h).tiles
           /\ width' = w
           /\ height' = h
           /\ result' = [op |-> "new", w |-> w, h |-> h]
    /\ phase' = "built"
    /\ origin' = "new"
    /\ UNCHANGED <<input, scan, nav, crt, space, geom>>

\* Map::default()
Default ==
    /\ phase = "input"
    /\ input = <<>>
    /\ tiles' = MapDefault.tiles
    /\ width' = MapDefault.width
    /\ height' = MapDefault.height
    /\ result' = [op |-> "default"]
    /\ phase' = "built"
    /\ origin' = "default"
    /\ UNCHANGED <<input, scan, nav, crt, space, geom>>

\* the 2d arrays handed to Map::from: rows of tiles, not always rectangular
Sources ==
    {s \in SeqsUpTo(SeqsUpTo(BoolTiles, 2), MaxLines) : SumLen(s) <= MaxTiles}

\* Map::from(source): panics unless the rows have one length
FromRows ==
    /\ phase = "input"
    /\ input = <<>>
    /\ \E source \in Sources :
           LET r == MapFrom(source) IN
           /\ phase' = IF r.panic THEN "panicked" ELSE "built"
           /\ tiles' = r.map.tiles
           /\ width' = r.map.width
           /\ height' = r.map.height
           /\ origin' = IF r.panic THEN "none" ELSE "from"
           /\ result' = [op |-> "from", source |-> source, panic |-> r.panic]
    /\ UNCHANGED <<input, scan, nav, crt, space, geom>>

\* map[(x, y)]
IndexPairRead ==
    /\ phase = "built"
    /\ \E x \in UXCoords, y \in UYCoords :
           LET r == IndexPair(tiles, width, x, y) IN
           /\ phase' = IF r.panic THEN "panicked" ELSE "built"
           /\ result' = [op |-> "index", at |-> Pt(x, y), panic |-> r.panic,
                         idx |-> r.idx, val |-> r.val]
    /\ UNCHANGED <<input, tiles, width, height, origin, scan, nav, crt, space, geom>>

\* map[point]
IndexPointRead ==
    /\ phase = "built"
    /\ \E x \in XCoords, y \in YCoords :
           LET r == IndexPoint(tiles, width, Pt(x, y)) IN
           /\ phase' = IF r.panic THEN "panicked" ELSE "built"
           /\ result' = [op |-> "index", at |-> Pt(x, y), panic |-> r.panic,
                         idx |-> r.idx, val |-> r.val]
    /\ UNCHANGED <<input, tiles, width, height, origin, scan, nav, crt, space, geom>>

\* map[(x, y)] = v
IndexPairWrite ==
    /\ phase = "built"
    /\ \E x \in UXCoords, y \in UYCoords, v \in BoolTiles :
           LET r == IndexPair(tiles, width, x, y) IN
           /\ phase' = IF r.panic THEN "panicked" ELSE "built"
           /\ tiles' = IF r.panic THEN tiles ELSE [tiles EXCEPT ![r.idx + 1] = v]
           /\ origin' = IF r.panic THEN origin ELSE "written"
           /\ input' = IF r.panic THEN input ELSE <<>>
           /\ result' = [op |-> "index_mut", at |-> Pt(x, y), panic |-> r.panic,
                         idx |-> r.idx, val |-> v]
    /\ UNCHANGED <<width, height, scan, nav, crt, space, geom>>

\* map[point] = v
IndexPointWrite ==
    /\ phase = "built"
    /\ \E x \in XCoords, y \in YCoords, v \in BoolTiles :
           LET r == IndexPoint(tiles, width, Pt(x, y)) IN
           /\ phase' = IF r.panic THEN "panicked" ELSE "built"
           /\ tiles' = IF r.panic THEN tiles ELSE [tiles EXCEPT ![r.idx + 1] = v]
           /\ origin' = IF r.panic THEN origin ELSE "written"
           /\ input' = IF r.panic THEN input ELSE <<>>
           /\ result' = [op |-> "index_mut", at |-> Pt(x, y), panic |-> r.panic,
                         idx |-> r.idx, val |-> v]
    /\ UNCHANGED <<width, height, scan, nav, crt, space, geom>>

\* map.for_each_mut(f)
ForEachMut ==
    /\ phase = "built"
    /\ \E f \in TileUpdates :
           /\ tiles' = ForEachMutTiles(tiles, f)
           /\ result' = [op |-> "for_each_mut", f |-> f]
    /\ origin' = "written"
    /\ input' = <<>>
    /\ UNCHANGED <<phase, width, height, scan, nav, crt, space, geom>>

\* map.for_each_point_mut(|tile, point| if point == q { *tile = !*tile })
ForEachPointMut ==
    /\ phase = "built"
    /\ \E x \in UXCoords, y \in UYCoords :
           /\ tiles' = ForEachPointMutTiles(tiles, width, Pt(x, y))
           /\ result' = [op |-> "for_each_point_mut", at |-> Pt(x, y),
                         calls |-> ForEachPointCalls(tiles, width)]
    /\ origin' = "written"
    /\ input' = <<>>
    /\ UNCHANGED <<phase, width, height, scan, nav, crt, space, geom>>

\* map.to_string()
Display ==
    /\ phase = "built"
    /\ result' = [op |-> "display", val |-> MapDisplay(tiles, width, height)]
    /\ UNCHANGED <<phase, input, tiles, width, height, origin, scan, nav, crt, space, geom>>

Next ==
    \/ Provide
    \/ TryFrom
    \/ New
    \/ Default
    \/ FromRows
    \/ IndexPairRead
    \/ IndexPointRead
    \/ IndexPairWrite
    \/ IndexPointWrite
    \/ ForEachMut
    \/ ForEachPointMut
    \/ Display

Spec == Init /\ [][Next]_vars


(***************************************************************************)
(* SpecOps: a map is built from a text or from rows, then asked whether a  *)
(* point is in bounds, indexed there, and walked tile by tile.             *)
(***************************************************************************)
\* the longest text, in characters and in lines
MaxOpsTiles == 4
MaxOpsLines == 2

OpsTexts ==
    {t \in SeqsUpTo(SeqsUpTo({"#", "."}, MaxOpsTiles), MaxOpsLines) :
        SumLen(t) <= MaxOpsTiles}

InitOps ==
    /\ phase = "input"
    /\ input \in OpsTexts
    /\ tiles = <<>>
    /\ width = 0
    /\ height = 0
    /\ origin = "none"
    /\ result = NoResult
    /\ scan = ScanIdle
    /\ nav = NavIdle
    /\ crt = CrtIdle
    /\ space = SpaceIdle
    /\ geom = GeomIdle

\* if map.in_bounds(point) { map[point] }
InBounds ==
    /\ phase = "built"
    /\ \E x \in XCoords, y \in YCoords :
           LET inside == in_bounds(width, height, Pt(x, y))
               r == IndexPoint(tiles, width, Pt(x, y)) IN
           /\ phase' = IF inside /\ r.panic THEN "panicked" ELSE "built"
           /\ result' = [op |-> "in_bounds", at |-> Pt(x, y), val |-> inside,
                         panic |-> inside /\ r.panic,
                         tile |-> IF inside THEN r.val ELSE "none"]
    /\ UNCHANGED <<input, tiles, width, height, origin, scan, nav, crt, space, geom>>

\* map.for_each_point(visit), the closure recording what it is called with
ForEachPoint ==
    /\ phase = "built"
    /\ result' = [op |-> "for_each_point", calls |-> ForEachPointCalls(tiles, width)]
    /\ UNCHANGED <<phase, input, tiles, width, height, origin, scan, nav, crt, space, geom>>

NextOps ==
    \/ TryFrom
    \/ FromRows
    \/ New
    \/ Default
    \/ InBounds
    \/ ForEachPoint
    \/ ForEachPointMut

SpecOps == InitOps /\ [][NextOps]_vars

(***************************************************************************)
(* Traversable tiles, directions, and the index closure of the flood fill. *)
(***************************************************************************)
\* enum Traversable (the tile type of the searched maps converts to itself)
Traversable == {"Obstructed", "Free", "Halt"}

\* Direction::iter
DirectionIter == <<"Up", "Down", "Left", "Right">>

\* Direction::deltas
deltas(d) ==
    IF d = "Up" THEN <<0, 1>>
    ELSE IF d = "Down" THEN <<0, -1>>
    ELSE IF d = "Right" THEN <<1, 0>>
    ELSE <<-1, 0>>

\* impl Add<Direction> for Point
PointAdd(p, d) == Pt(p.x + deltas(d)[1], p.y + deltas(d)[2])

\* Point::manhattan of (a - b)
manhattan(a, b) ==
    (IF a.x >= b.x THEN a.x - b.x ELSE b.x - a.x)
        + (IF a.y >= b.y THEN a.y - b.y ELSE b.y - a.y)

\* The closure `idx` of reachable_from_ctx:
\*     point.x as usize + (point.y as usize * self.width)
\* A negative i32 cast to usize is 2^64 + v.  usize values are kept here as
\* the signed number congruent to them mod 2^64 (all magnitudes are small),
\* so the wrapped result is x + y*w, and a negative val stands for an index
\* near 2^64.  ovf says whether the unsigned multiplication or addition
\* overflowed: a build with overflow checks (debug) panics there, a build
\* without them (release) goes on with the wrapped value.
Idx(w, point, b) ==
    LET s == point.y * w
        mulOvf == point.y < 0 /\ w >= 2
        neg == (IF point.x < 0 THEN 1 ELSE 0) + (IF s < 0 THEN 1 ELSE 0)
        addOvf == neg = 2 \/ (neg = 1 /\ point.x + s >= 0)
        ovf == mulOvf \/ addOvf IN
    [ovf |-> ovf, panic |-> (ovf /\ b = "debug"), val |-> point.x + s]

\* visited[i] on a bitvec of tiles.len() bits panics out of range
BitOutOfRange(ts, i) == i < 0 \/ i >= Len(ts)

(***************************************************************************)
(* reachable_from_ctx, one iteration of `while let Some(point) = pop`.     *)
(* scan.visited is the set of set bits, scan.visits the points handed to   *)
(* the visitor, in order.  scan.build is the build profile, "any" until    *)
(* the first overflow (both builds behave alike before it).  scan.stop is  *)
(* what the visitor returned when it was last called.                      *)
(***************************************************************************)
ScanStart(start) ==
    [status |-> "running", build |-> "any", start |-> start,
     queue |-> <<start>>, visited |-> {}, visits |-> <<>>, stop |-> FALSE]

NoteBuild(sc, i, b) == IF i.ovf THEN [sc EXCEPT !.build = b] ELSE sc

ScanPanic(sc) == [sc EXCEPT !.status = "panicked"]

\* mutant of QueuePush: the neighbour goes to the front of the queue
QueuePushFront(queue, neighbor) == <<neighbor>> \o queue

\* queue.push_back(neighbor)
QueuePush(queue, neighbor) == Append(queue, neighbor)

\* for direction in Direction::iter(): push the neighbours not yet visited
RECURSIVE PushNeighbors(_, _, _, _, _, _)
PushNeighbors(ts, w, sc, point, k, b) ==
    IF k > Len(DirectionIter) THEN sc
    ELSE LET neighbor == PointAdd(point, DirectionIter[k])
             i == Idx(w, neighbor, b)
             sc1 == NoteBuild(sc, i, b) IN
         IF i.panic \/ BitOutOfRange(ts, i.val) THEN ScanPanic(sc1)
         ELSE IF i.val \notin sc1.visited
         THEN PushNeighbors(ts, w, [sc1 EXCEPT !.queue = QueuePush(@, neighbor)],
                            point, k + 1, b)
         ELSE PushNeighbors(ts, w, sc1, point, k + 1, b)

\* mutant of ScanExpands: every tile is expanded, whatever its kind
ScanExpandsAlways(traversable) == traversable \in Traversable

\* `if traversable == Traversable::Free`
ScanExpands(traversable) == traversable = "Free"

\* mutant of ScanVisits: every tile is reported, Obstructed ones too
ScanVisitsAll(traversable) == traversable \in Traversable

\* `if traversable != Traversable::Obstructed`
ScanVisits(traversable) == traversable # "Obstructed"

\* mutant of ScanSeen: a dequeued point is processed whatever its bit
ScanSeenNever(visited, i) == i \in {}

\* `if visited[idx(point)] { continue; }`
ScanSeen(visited, i) == i \in visited

\* mutant of ScanBreaks: the loop goes on whatever the visitor returns
ScanBreaksNever(ret) == ret /\ ~ret

\* `if visit(&self[point], point) { break; }`
ScanBreaks(ret) == ret

\* the body of the loop; ret is what the visitor returns if it is called
ScanIteration(ts, w, sc, b, ret) ==
    LET point == Head(sc.queue)
        i == Idx(w, point, b)
        sc0 == NoteBuild([sc EXCEPT !.queue = Tail(@)], i, b) IN
    IF i.panic \/ BitOutOfRange(ts, i.val) THEN ScanPanic(sc0)
    ELSE IF ScanSeen(sc0.visited, i.val) THEN sc0
    ELSE LET sc1 == [sc0 EXCEPT !.visited = @ \cup {i.val}]
             t == IndexPoint(ts, w, point) IN
         IF t.panic THEN ScanPanic(sc1)
         ELSE LET called == ScanVisits(t.val)
                  sc2 == IF called
                         THEN [sc1 EXCEPT !.visits = Append(@, point),
                                          !.stop = ret]
                         ELSE sc1 IN
              IF called /\ ScanBreaks(ret) THEN [sc2 EXCEPT !.status = "stopped"]
              ELSE IF ScanExpands(t.val)
              THEN PushNeighbors(ts, w, sc2, point, 1, b)
              ELSE sc2

(***************************************************************************)
(* SpecReach: one call of reachable_from on a grid of Traversable tiles.   *)
(***************************************************************************)
\* widest and tallest searched grid
MaxW == 4
MaxH == 3
\* most tiles of such a grid that are not Obstructed
MaxOpen == 2
\* longest one-tile-wide grid (a row or a column); its tiles are arbitrary
MaxStrip == 5

\* widest and tallest grid with a block of Free tiles
MaxBlockW == 3
MaxBlockH == 4

\* the subsets of S with at most k elements
RECURSIVE SubsetsUpTo(_, _)
SubsetsUpTo(S, k) ==
    IF k = 0 \/ S = {} THEN {{}}
    ELSE LET prev == SubsetsUpTo(S, k - 1) IN
         prev \cup {T \cup {x} : T \in prev, x \in S}

\* the grids of w x h tiles with at most MaxOpen Free or Halt tiles
ReachGrids(w, h) ==
    UNION {{[i \in 1..(w * h) |->
                IF i \in halt THEN "Halt"
                ELSE IF i \in open THEN "Free" ELSE "Obstructed"] :
               halt \in SUBSET open} :
           open \in SubsetsUpTo(1..(w * h), MaxOpen)}

\* the grids one tile wide or one tile high, of any tiles
StripGrids(w, h) ==
    IF (w = 1 \/ h = 1) /\ w * h <= MaxStrip
    THEN [1..(w * h) -> Traversable] ELSE {}

\* the grids whose Free tiles are one rectangular block, the rest Obstructed
BlockGrids(w, h) ==
    IF w <= MaxBlockW /\ h <= MaxBlockH
    THEN {[i \in 1..(w * h) |->
              IF /\ index2point(w, i - 1)[1] \in x0..x1
                 /\ index2point(w, i - 1)[2] \in y0..y1
              THEN "Free" ELSE "Obstructed"] :
             x0 \in 0..(w - 1), x1 \in 0..(w - 1), y0 \in 0..(h - 1), y1 \in 0..(h - 1)}
    ELSE {}

\* the grids whose Free tiles are one rectangular block, the rest Halt
FencedGrids(w, h) ==
    IF w <= MaxBlockW /\ h <= MaxBlockH
    THEN {[i \in 1..(w * h) |->
              IF /\ index2point(w, i - 1)[1] \in x0..x1
                 /\ index2point(w, i - 1)[2] \in y0..y1
              THEN "Free" ELSE "Halt"] :
             x0 \in 0..(w - 1), x1 \in 0..(w - 1), y0 \in 0..(h - 1), y1 \in 0..(h - 1)}
    ELSE {}

\* the shapes <<width, height>> of the searched grids
ReachShapes ==
    ((1..MaxW) \X (1..MaxH)) \cup ((1..MaxStrip) \X {1}) \cup ({1} \X (1..MaxStrip))
        \cup ((1..MaxBlockW) \X (1..MaxBlockH))

InitReach ==
    /\ phase = "scan"
    /\ input = <<>>
    /\ origin = "from"
    /\ result = NoResult
    /\ nav = NavIdle
    /\ crt = CrtIdle
    /\ space = SpaceIdle
    /\ geom = GeomIdle
    /\ \E shape \in ReachShapes :
           /\ width = shape[1]
           /\ height = shape[2]
           /\ tiles \in (IF shape[1] <= MaxW /\ shape[2] <= MaxH
                           THEN ReachGrids(shape[1], shape[2]) ELSE {})
                          \cup StripGrids(shape[1], shape[2])
                          \cup BlockGrids(shape[1], shape[2])
                          \cup FencedGrids(shape[1], shape[2])
           /\ \E x \in 0..(width - 1), y \in 0..(height - 1) :
                  scan = ScanStart(Pt(x, y))

ScanBuilds == IF scan.build = "any" THEN {"debug", "release"} ELSE {scan.build}

\* one iteration of the loop of reachable_from_ctx
ScanStep ==
    /\ scan.status = "running"
    /\ scan.queue # <<>>
    /\ \E b \in ScanBuilds, ret \in BOOLEAN :
           scan' = ScanIteration(tiles, width, scan, b, ret)
    /\ UNCHANGED <<phase, input, tiles, width, height, origin, result, nav, crt, space, geom>>

\* the queue is empty: reachable_from_ctx returns
ScanReturn ==
    /\ scan.status = "running"
    /\ scan.queue = <<>>
    /\ scan' = [scan EXCEPT !.status = "done"]
    /\ UNCHANGED <<phase, input, tiles, width, height, origin, result, nav, crt, space, geom>>

NextReach ==
    \/ ScanStep
    \/ ScanReturn

SpecReach == InitReach /\ [][NextReach]_vars

(***************************************************************************)
(* navigate_ctx, one iteration of `while let Some(node) = open_set.pop()`. *)
(* nav.open_set is the BinaryHeap as the set of its nodes (a position is   *)
(* pushed only when no node of the heap has it, so no node repeats);       *)
(* came_from, cheapest_path_cost and total_cost_guess are the HashMaps,    *)
(* functions on the set of their keys.                                     *)
(***************************************************************************)
\* #[derive(PartialOrd, Ord)] for Point: x first, then y
PointLess(p, q) == p.x < q.x \/ (p.x = q.x /\ p.y < q.y)

AStarNode(cost, position) == [cost |-> cost, position |-> position]

\* mutant of NodeGreater: nodes of equal cost are not told apart
NodeGreaterByCost(a, b) == a.cost < b.cost

\* mutant of NodeGreater: the comparison of the costs is not flipped
NodeGreaterUnflipped(a, b) ==
    \/ a.cost > b.cost
    \/ a.cost = b.cost /\ PointLess(b.position, a.position)

\* impl Ord for AStarNode: a.cmp(b) == Greater
NodeGreater(a, b) ==
    \/ a.cost < b.cost
    \/ a.cost = b.cost /\ PointLess(b.position, a.position)

\* BinaryHeap::pop returns a greatest node: one that no node is greater than
HeapTops(heap) == {a \in heap : \A b \in heap \ {a} : ~NodeGreater(b, a)}

\* the greatest node
HeapTop(heap) == CHOOSE a \in heap : \A b \in heap \ {a} : NodeGreater(a, b)

\* HashMap::insert
MapInsert(m, k, v) == (k :> v) @@ m

\* HashMap::remove
MapRemove(m, k) == [q \in (DOMAIN m) \ {k} |-> m[q]]

EmptyMap == [q \in {} |-> 0]

\* what an earlier call with the same arguments returned; none was made yet
NoCall == [status |-> "idle", path |-> <<>>]

NavStart(from, to) ==
    [status |-> "running", from |-> from, to |-> to,
     open_set |-> {AStarNode(0, from)},
     came_from |-> EmptyMap,
     cheapest_path_cost |-> MapInsert(EmptyMap, from, 0),
     total_cost_guess |-> MapInsert(EmptyMap, from, manhattan(to, from)),
     path |-> <<>>, earlier |-> NoCall]

\* `while let Some((direction, predecessor)) = came_from.remove(&current)`
RECURSIVE WalkBack(_, _, _)
WalkBack(came_from, current, path) ==
    IF current \in DOMAIN came_from
    THEN WalkBack(MapRemove(came_from, current), came_from[current][2],
                  Append(path, came_from[current][1]))
    ELSE path

\* mutant of ReconstructPath: the path is not reversed
ReconstructPathBackward(came_from, position) == WalkBack(came_from, position, <<>>)

\* the path from `from` to position: the walk back, then path.reverse()
ReconstructPath(came_from, position) == Reverse(WalkBack(came_from, position, <<>>))

\* mutant of NavPassable: Halt tiles cannot be entered
NavPassableFreeOnly(traversable) == traversable = "Free"

\* `Traversable::Free | Traversable::Halt =>`
NavPassable(traversable) == traversable \in {"Free", "Halt"}

\* the cost of a pushed node taken from total_cost_guess, as in the textbook A*
PushedCostGuess(tentative, guess) == guess

\* `cost: tentative_cheapest_path_cost` of the pushed AStarNode
PushedCost(tentative, guess) == tentative

\* the test of the tentative cost left out: every passable neighbour is recorded
ImprovesAlways(tentative, cheapest_path_cost, neighbor) ==
    tentative >= 0

\* `tentative_cheapest_path_cost < cheapest_path_cost.get(&neighbor)
\* .cloned().unwrap_or(u32::MAX)`: an absent cost is above every tentative one
Improves(tentative, cheapest_path_cost, neighbor) ==
    \/ neighbor \notin DOMAIN cheapest_path_cost
    \/ tentative < cheapest_path_cost[neighbor]

\* `for direction in Direction::iter()` of navigate_ctx, from direction k on
RECURSIVE Expand(_, _, _, _, _, _, _)
Expand(ts, w, h, nv, cost, position, k) ==
    IF k > Len(DirectionIter) THEN nv
    ELSE LET direction == DirectionIter[k]
             neighbor == PointAdd(position, direction)
             tentative == cost + 1 IN
         IF ~in_bounds(w, h, neighbor)
         THEN Expand(ts, w, h, nv, cost, position, k + 1)
         ELSE IF ~NavPassable(IndexPoint(ts, w, neighbor).val)
         THEN Expand(ts, w, h, nv, cost, position, k + 1)
         ELSE IF ~Improves(tentative, nv.cheapest_path_cost, neighbor)
         THEN Expand(ts, w, h, nv, cost, position, k + 1)
         ELSE LET nv1 == [nv EXCEPT
                      !.came_from = MapInsert(@, neighbor, <<direction, position>>),
                      !.cheapest_path_cost = MapInsert(@, neighbor, tentative),
                      !.total_cost_guess =
                          MapInsert(@, neighbor, tentative + manhattan(nv.to, neighbor))]
                  nv2 == IF \A elem \in nv1.open_set : elem.position # neighbor
                         THEN [nv1 EXCEPT !.open_set = @ \cup
                                  {AStarNode(PushedCost(tentative,
                                                        nv1.total_cost_guess[neighbor]),
                                             neighbor)}]
                         ELSE nv1 IN
              Expand(ts, w, h, nv2, cost, position, k + 1)

\* the body of the loop; node is what open_set.pop() returned and b is the
\* build (debug_assert! is checked in debug)
NavIteration(ts, w, h, nv, b, node) ==
    LET nv0 == [nv EXCEPT !.open_set = @ \ {node}] IN
    IF node.position = nv.to
    THEN LET path == ReconstructPath(nv0.came_from, node.position) IN
         IF b = "debug" /\ ~(Len(path) >= manhattan(nv.to, nv.from))
         THEN [nv0 EXCEPT !.status = "panicked"]
         ELSE [nv0 EXCEPT !.status = "found", !.path = path]
    ELSE Expand(ts, w, h, nv0, node.cost, node.position, 1)

(***************************************************************************)
(* SpecNav: one call of navigate on a grid of Traversable tiles.           *)
(***************************************************************************)
\* widest and tallest grid navigated
MaxNavW == 3
MaxNavH == 2
\* most tiles of such a grid that are not Free
MaxSpecial == 1

\* the grids of w x h tiles with at most MaxSpecial Obstructed or Halt tiles
NavGrids(w, h) ==
    UNION {{[i \in 1..(w * h) |->
                IF i \in halt THEN "Halt"
                ELSE IF i \in special THEN "Obstructed" ELSE "Free"] :
               halt \in SUBSET special} :
           special \in SubsetsUpTo(1..(w * h), MaxSpecial)}

\* from and to: any point of the grid, the point left of the origin or the
\* point right of the top right corner
NavEnds(w, h) ==
    {Pt(x, y) : x \in 0..(w - 1), y \in 0..(h - 1)} \cup {Pt(-1, 0), Pt(w, h - 1)}

InitNav ==
    /\ phase = "nav"
    /\ input = <<>>
    /\ origin = "from"
    /\ result = NoResult
    /\ scan = ScanIdle
    /\ crt = CrtIdle
    /\ space = SpaceIdle
    /\ geom = GeomIdle
    /\ \E w \in 1..MaxNavW, h \in 1..MaxNavH :
           /\ width = w
           /\ height = h
           /\ tiles \in NavGrids(w, h)
           /\ \E from \in NavEnds(w, h), to \in NavEnds(w, h) :
                  nav = NavStart(from, to)

\* one iteration of the loop of navigate_ctx
NavStep ==
    /\ nav.status = "running"
    /\ nav.open_set # {}
    /\ \E b \in {"debug", "release"}, node \in HeapTops(nav.open_set) :
           nav' = NavIteration(tiles, width, height, nav, b, node)
    /\ UNCHANGED <<phase, input, tiles, width, height, origin, result, scan, crt, space, geom>>

\* the open set is empty: navigate_ctx returns None
NavReturnNone ==
    /\ nav.status = "running"
    /\ nav.open_set = {}
    /\ nav' = [nav EXCEPT !.status = "none"]
    /\ UNCHANGED <<phase, input, tiles, width, height, origin, result, scan, crt, space, geom>>

NextNav ==
    \/ NavStep
    \/ NavReturnNone

SpecNav == InitNav /\ [][NextNav]_vars

\* navigate is called once more on the same grid with the same from and to
NavAgain ==
    /\ nav.status \in {"found", "none"}
    /\ nav.earlier = NoCall
    /\ nav' = [NavStart(nav.from, nav.to) EXCEPT
                   !.earlier = [status |-> nav.status, path |-> nav.path]]
    /\ UNCHANGED <<phase, input, tiles, width, height, origin, result, scan, crt, space, geom>>

NextNavTwice ==
    \/ NavStep
    \/ NavReturnNone
    \/ NavAgain

\* two calls of navigate, one after the other
SpecNavTwice == InitNav /\ [][NextNavTwice]_vars

\* widest and tallest grid on which a call is followed to its end
MaxLiveW == 2
MaxLiveH == 2

\* the grids of w x h Free tiles with at most one Obstructed or Halt tile
LiveGrids(w, h) ==
    {[i \in 1..(w * h) |-> IF i = k THEN t ELSE "Free"] :
        k \in 0..(w * h), t \in {"Obstructed", "Halt"}}

InitNavLive ==
    /\ phase = "nav"
    /\ input = <<>>
    /\ origin = "from"
    /\ result = NoResult
    /\ scan = ScanIdle
    /\ crt = CrtIdle
    /\ space = SpaceIdle
    /\ geom = GeomIdle
    /\ \E w \in 1..MaxLiveW, h \in 1..MaxLiveH :
           /\ width = w
           /\ height = h
           /\ tiles \in LiveGrids(w, h)
           /\ \E from \in NavEnds(w, h), to \in NavEnds(w, h) :
                  nav = NavStart(from, to)

\* the loop of navigate_ctx runs on while it can: nothing suspends it
SpecNavLive == InitNavLive /\ [][NextNav]_vars /\ WF_vars(NextNav)

(***************************************************************************)
(* numbers::chinese_remainder.  The functions are generic over the integer *)
(* type N (Integer + Copy + Signed); N is taken to be i8 here.  A value of *)
(* N is kept as the integer it denotes; Wrap gives the result of an        *)
(* operation that overflowed in a build without overflow checks, and a     *)
(* build with them panics there.                                           *)
(***************************************************************************)
\* the width of N in bits
IntBits == 8
IntMin == -(2 ^ (IntBits - 1))
IntMax == (2 ^ (IntBits - 1)) - 1
Fits(v) == v >= IntMin /\ v <= IntMax
Wrap(v) == ((v - IntMin) % (2 ^ IntBits)) + IntMin
Abs(v) == IF v >= 0 THEN v ELSE -v

\* `/` and `%` of N truncate towards zero; in every build they panic on a
\* zero divisor and on MIN / -1
DivPanics(a, b) == b = 0 \/ (a = IntMin /\ b = -1)
TDiv(a, b) ==
    IF (a >= 0) = (b >= 0) THEN Abs(a) \div Abs(b) ELSE -(Abs(a) \div Abs(b))
TRem(a, b) == a - TDiv(a, b) * b

\* fn egcd(a, b) -> (g, x, y); ovf: an operation overflowed, panic: one
\* panicked in every build
RECURSIVE egcd(_, _)
egcd(a, b) ==
    IF a = 0 THEN [g |-> b, x |-> 0, y |-> 1, ovf |-> FALSE, panic |-> FALSE]
    ELSE IF DivPanics(b, a)
    THEN [g |-> 0, x |-> 0, y |-> 0, ovf |-> FALSE, panic |-> TRUE]
    ELSE LET r == egcd(TRem(b, a), a)
             m == TDiv(b, a) * r.x
             d == r.y - Wrap(m) IN
         [g |-> r.g, x |-> Wrap(d), y |-> r.x,
          ovf |-> r.ovf \/ ~Fits(m) \/ ~Fits(d), panic |-> r.panic]

\* fn mod_inv(x, n) -> Option<N>; some = FALSE is None
mod_inv(x, n) ==
    LET e == egcd(x, n) IN
    IF e.panic THEN [some |-> FALSE, val |-> 0, ovf |-> e.ovf, panic |-> TRUE]
    ELSE IF e.g = 1
    THEN IF DivPanics(e.x, n)
         THEN [some |-> FALSE, val |-> 0, ovf |-> e.ovf, panic |-> TRUE]
         ELSE LET t == TRem(e.x, n) + n IN
              IF DivPanics(Wrap(t), n)
              THEN [some |-> FALSE, val |-> 0, ovf |-> e.ovf \/ ~Fits(t), panic |-> TRUE]
              ELSE [some |-> TRUE, val |-> TRem(Wrap(t), n),
                    ovf |-> e.ovf \/ ~Fits(t), panic |-> FALSE]
    ELSE [some |-> FALSE, val |-> 0, ovf |-> e.ovf, panic |-> FALSE]

\* Constraint::new
Constraint(modulus, remainder) == [modulus |-> modulus, remainder |-> remainder]

\* Constraint::new_invert_remainder
new_invert_remainder(modulus, invert_remainder) ==
    LET d == modulus - invert_remainder IN
    IF DivPanics(Wrap(d), modulus)
    THEN [constraint |-> Constraint(modulus, 0), ovf |-> ~Fits(d), panic |-> TRUE]
    ELSE [constraint |-> Constraint(modulus, TRem(Wrap(d), modulus)),
          ovf |-> ~Fits(d), panic |-> FALSE]

\* `.map(|&constraint| constraint.modulus).product::<N>()`, from factor k on
RECURSIVE ModuliProduct(_, _, _)
ModuliProduct(constraints, k, acc) ==
    IF k > Len(constraints) THEN acc
    ELSE LET m == acc.val * constraints[k].modulus IN
         ModuliProduct(constraints, k + 1,
                       [val |-> Wrap(m), ovf |-> acc.ovf \/ ~Fits(m)])

(***************************************************************************)
(* chinese_remainder: crt.status is "product" before the product of the    *)
(* moduli is taken, "loop" in the loop over the constraints (crt.i is the  *)
(* next one), then "some" (crt.value is the number returned), "none" or    *)
(* "panicked".  crt.build is the build profile, "any" until an operation   *)
(* overflows.                                                              *)
(***************************************************************************)
CrtStart(constraints) ==
    [status |-> "product", build |-> "any", constraints |-> constraints,
     product |-> 0, sum |-> 0, i |-> 1, value |-> 0]

\* the build is known once an operation has overflowed; a build with
\* overflow checks panics there
CrtAfter(c, ovf, panic, b) ==
    LET c1 == IF ovf THEN [c EXCEPT !.build = b] ELSE c IN
    IF panic \/ (ovf /\ b = "debug") THEN [c1 EXCEPT !.status = "panicked"] ELSE c1

\* `let product = ...; let mut sum = N::zero();`
CrtTakeProduct(c, b) ==
    LET p == ModuliProduct(c.constraints, 1, [val |-> 1, ovf |-> FALSE]) IN
    CrtAfter([c EXCEPT !.status = "loop", !.product = p.val, !.sum = 0],
             p.ovf, FALSE, b)

\* `*remainder * mod_inv(p, *modulus)? * p`: the two products, left to right
CrtTermValue(remainder, inv, p) == <<remainder * inv, Wrap(remainder * inv) * p>>

\* one iteration of `for Constraint { modulus, remainder } in constraints`
CrtTerm(c, b) ==
    LET modulus == c.constraints[c.i].modulus
        remainder == c.constraints[c.i].remainder IN
    IF DivPanics(c.product, modulus) THEN CrtAfter(c, FALSE, TRUE, b)
    ELSE LET p == TDiv(c.product, modulus)
             inv == mod_inv(p, modulus) IN
         IF inv.panic \/ (inv.ovf /\ b = "debug") THEN CrtAfter(c, inv.ovf, TRUE, b)
         ELSE IF ~inv.some
         THEN CrtAfter([c EXCEPT !.status = "none"], inv.ovf, FALSE, b)
         ELSE LET t == CrtTermValue(remainder, inv.val, p)
                  sum == c.sum + Wrap(t[2]) IN
              CrtAfter([c EXCEPT !.sum = Wrap(sum), !.i = @ + 1],
                       inv.ovf \/ ~Fits(t[1]) \/ ~Fits(t[2]) \/ ~Fits(sum), FALSE, b)

\* `Some(sum % product)`
CrtResult(c, b) ==
    IF DivPanics(c.sum, c.product) THEN CrtAfter(c, FALSE, TRUE, b)
    ELSE [c EXCEPT !.status = "some", !.value = TRem(c.sum, c.product)]

(***************************************************************************)
(* SpecCrt: one call of chinese_remainder.                                 *)
(***************************************************************************)
\* greatest modulus and most constraints of a call
MaxModulus == 7
MaxConstraints == 3

\* the constraint lists of a call: moduli from 1 to MaxModulus, in
\* ascending or in descending order, each with a remainder from 0 to
\* modulus - 1
ConstraintLists ==
    UNION {{cs \in [1..n -> {Constraint(m, r) : m \in 1..MaxModulus, r \in 0..(MaxModulus - 1)}] :
               /\ \A k \in 1..n : cs[k].remainder < cs[k].modulus
               /\ \/ \A k \in 1..(n - 1) : cs[k].modulus <= cs[k + 1].modulus
                  \/ \A k \in 1..(n - 1) : cs[k].modulus >= cs[k + 1].modulus} :
           n \in 0..MaxConstraints}

InitCrt ==
    /\ phase = "crt"
    /\ input = <<>>
    /\ tiles = <<>>
    /\ width = 0
    /\ height = 0
    /\ origin = "none"
    /\ result = NoResult
    /\ scan = ScanIdle
    /\ nav = NavIdle
    /\ space = SpaceIdle
    /\ geom = GeomIdle
    /\ \E cs \in ConstraintLists : crt = CrtStart(cs)

CrtBuilds == IF crt.build = "any" THEN {"debug", "release"} ELSE {crt.build}

CrtProduct ==
    /\ crt.status = "product"
    /\ \E b \in CrtBuilds : crt' = CrtTakeProduct(crt, b)
    /\ UNCHANGED <<phase, input, tiles, width, height, origin, result, scan, nav, space, geom>>

CrtLoop ==
    /\ crt.status = "loop"
    /\ crt.i <= Len(crt.constraints)
    /\ \E b \in CrtBuilds : crt' = CrtTerm(crt, b)
    /\ UNCHANGED <<phase, input, tiles, width, height, origin, result, scan, nav, space, geom>>

CrtReturn ==
    /\ crt.status = "loop"
    /\ crt.i > Len(crt.constraints)
    /\ \E b \in CrtBuilds : crt' = CrtResult(crt, b)
    /\ UNCHANGED <<phase, input, tiles, width, height, origin, result, scan, nav, space, geom>>

NextCrt ==
    \/ CrtProduct
    \/ CrtLoop
    \/ CrtReturn

SpecCrt == InitCrt /\ [][NextCrt]_vars

(***************************************************************************)
(* SpecConstraint: one call of Constraint::new_invert_remainder, as        *)
(* BusNotes::search_for_valid_timestamp makes it for a bus (the modulus)   *)
(* and its position in the list (the inverted remainder).                  *)
(***************************************************************************)
\* greatest inverted remainder
MaxInvert == 15

InitConstraint ==
    /\ phase = "constraint"
    /\ input = <<>>
    /\ tiles = <<>>
    /\ width = 0
    /\ height = 0
    /\ origin = "none"
    /\ result = NoResult
    /\ scan = ScanIdle
    /\ nav = NavIdle
    /\ space = SpaceIdle
    /\ geom = GeomIdle
    /\ \E modulus \in 1..MaxModulus, invert_remainder \in 0..MaxInvert :
           crt = [status |-> "args", modulus |-> modulus,
                  invert_remainder |-> invert_remainder]

NewInvertRemainder ==
    /\ crt.status = "args"
    /\ \E b \in {"debug", "release"} :
           LET made == new_invert_remainder(crt.modulus, crt.invert_remainder) IN
           crt' = [status |-> IF made.panic \/ (made.ovf /\ b = "debug")
                              THEN "panicked" ELSE "made",
                   modulus |-> crt.modulus,
                   invert_remainder |-> crt.invert_remainder,
                   constraint |-> made.constraint]
    /\ UNCHANGED <<phase, input, tiles, width, height, origin, result, scan, nav, space, geom>>

NextConstraint == NewInvertRemainder

SpecConstraint == InitConstraint /\ [][NextConstraint]_vars

(***************************************************************************)
(* Points of three and four dimensions (Vector3, Vector4) as tuples of     *)
(* their coordinates, and the Conway space of day 17 built over them.      *)
(***************************************************************************)
Axes(v) == 1..Len(v)

\* Vector3::decr / Vector4::decr: one less on every axis
decr(v) == [i \in Axes(v) |-> v[i] - 1]

\* Vector3::incr / Vector4::incr: one more on every axis
incr(v) == [i \in Axes(v) |-> v[i] + 1]

\* the length of the range min[i]..=max[i] of one axis
AxisLen(min, max, i) == IF max[i] >= min[i] THEN max[i] - min[i] + 1 ELSE 0

RECURSIVE AxisStride(_, _, _)
\* how many points of the cartesian product share one value of axis i
AxisStride(min, max, i) ==
    IF i >= Len(min) THEN 1
    ELSE AxisLen(min, max, i + 1) * AxisStride(min, max, i + 1)

\* the cartesian product of the ranges of the axes, the first axis the
\* outermost loop, in the order the iterator yields it
CartesianProduct(min, max) ==
    LET len    == [i \in Axes(min) |-> AxisLen(min, max, i)]
        stride == [i \in Axes(min) |-> AxisStride(min, max, i)]
    IN  [k \in 1..(len[1] * stride[1]) |->
            [i \in Axes(min) |-> min[i] + (((k - 1) \div stride[i]) % len[i])]]

\* a range one wider on every side than asked for
inclusive_range_wider(min, max) == CartesianProduct(decr(min), incr(max))

\* Vector3::inclusive_range / Vector4::inclusive_range
inclusive_range(min, max) == CartesianProduct(min, max)

\* adjacent without the filter that drops the point itself
adjacent_with_self(self) == inclusive_range(decr(self), incr(self))

\* adjacent: the range from decr to incr without the point itself
adjacent(self) ==
    SelectSeq(inclusive_range(decr(self), incr(self)), LAMBDA point : point # self)

boundary_min(self, other) ==
    [i \in Axes(self) |-> IF self[i] <= other[i] THEN self[i] ELSE other[i]]

boundary_max(self, other) ==
    [i \in Axes(self) |-> IF self[i] >= other[i] THEN self[i] ELSE other[i]]

Cubes == {"Active", "Inactive"}

\* the Default of a point: every coordinate zero
DefaultPoint(dim) == [i \in 1..dim |-> 0]

\* ConwaySpace::default(): nothing active, min and max the default point
ConwayDefault(dim) ==
    [active |-> {}, min |-> DefaultPoint(dim), max |-> DefaultPoint(dim)]

\* the projections of part1 and part2
Projection(dim, x, y) == IF dim = 3 THEN <<x, y, 0>> ELSE <<x, y, 0, 0>>

\* space.active.insert(point) together with the two boundary updates
ConwayInsert(sp, point, activate) ==
    [active |-> IF activate THEN sp.active \cup {point} ELSE sp.active,
     min    |-> boundary_min(sp.min, point),
     max    |-> boundary_max(sp.max, point)]

RECURSIVE ConwayNewFrom(_, _, _, _, _)
\* the for_each_point loop of ConwaySpace::new over the tiles of the plane
ConwayNewFrom(sp, dim, w, plane, idx) ==
    IF idx >= Len(plane) THEN sp
    ELSE LET point == Projection(dim, index2point(w, idx)[1], index2point(w, idx)[2]) IN
         ConwayNewFrom(ConwayInsert(sp, point, plane[idx + 1] = "Active"),
                       dim, w, plane, idx + 1)

ConwayNew(dim, w, plane) == ConwayNewFrom(ConwayDefault(dim), dim, w, plane, 0)

\* ConwaySpace::get
ConwayGet(sp, point) == point \in sp.active

\* n_adjacent: the neighbours of point, as adjacent() yields them, that are active
NAdjacent(sp, point) ==
    LET adj == adjacent(point) IN
    Cardinality({k \in 1..Len(adj) : ConwayGet(sp, adj[k])})

\* the match of successor: the point is active in the successor
StaysOrBecomesActive(sp, point) ==
    LET n_adjacent == NAdjacent(sp, point) IN
    \/ ConwayGet(sp, point) /\ n_adjacent \in {2, 3}
    \/ ~ConwayGet(sp, point) /\ n_adjacent = 3

\* the scan of successor kept to the box itself
ScanBoxTight(sp) == inclusive_range(sp.min, sp.max)

\* the points successor examines: the box widened by one on every side
ScanBox(sp) == inclusive_range(decr(sp.min), incr(sp.max))

RECURSIVE ConwayInsertAll(_, _)
\* the inserts of successor, one per point that is active in the successor
ConwayInsertAll(sp, points) ==
    IF points = {} THEN sp
    ELSE LET point == CHOOSE point \in points : TRUE IN
         ConwayInsertAll(ConwayInsert(sp, point, TRUE), points \ {point})

\* ConwaySpace::successor
successor(sp) ==
    LET range == ScanBox(sp)
        alive == {range[k] : k \in {k \in 1..Len(range) : StaysOrBecomesActive(sp, range[k])}}
    IN  ConwayInsertAll(ConwayDefault(Len(sp.min)), alive)

\* the largest plane, in tiles, and the longest run of successors
MaxCubes == 3
MaxSteps == 2

InitConway ==
    /\ phase = "conway"
    /\ input = <<>>
    /\ origin = "none"
    /\ result = NoResult
    /\ scan = ScanIdle
    /\ nav = NavIdle
    /\ crt = CrtIdle
    /\ geom = GeomIdle
    /\ space = SpaceIdle
    /\ \E w \in 1..MaxCubes, h \in 1..MaxCubes :
           /\ w * h <= MaxCubes
           /\ width = w
           /\ height = h
           /\ tiles \in [1..(w * h) -> Cubes]

\* ConwaySpace::new with the projection of part1 (dim 3) or part2 (dim 4)
ConwaySpaceNew ==
    /\ phase = "conway"
    /\ space.status = "idle"
    /\ \E dim \in {3, 4} :
           \E sp \in {ConwayNew(dim, width, tiles)} :
           space' = [status |-> "new", steps |-> 0,
                     active |-> sp.active, min |-> sp.min, max |-> sp.max,
                     before |-> [active |-> sp.active, min |-> sp.min, max |-> sp.max]]
    /\ UNCHANGED <<phase, input, tiles, width, height, origin, result, scan, nav, crt, geom>>

\* one round of the loop of nth_successor
ConwaySuccessor ==
    /\ phase = "conway"
    /\ space.status \in {"new", "successor"}
    /\ space.steps < MaxSteps
    /\ \E self \in {[active |-> space.active, min |-> space.min, max |-> space.max]} :
       \E sp \in {successor(self)} :
           \* successor borrows self immutably: the predecessor is what it was
           space' = [status |-> "successor", steps |-> space.steps + 1,
                     active |-> sp.active, min |-> sp.min, max |-> sp.max,
                     before |-> self]
    /\ UNCHANGED <<phase, input, tiles, width, height, origin, result, scan, nav, crt, geom>>

NextConway == ConwaySpaceNew \/ ConwaySuccessor

SpecConway == InitConway /\ [][NextConway]_vars

(***************************************************************************)
(* Functions of points applied to arguments of a bounded range: adjacent   *)
(* of Vector3 and Vector4, rotate_right and rotate_left of Point.          *)
(***************************************************************************)
\* Point::rotate_right with the sign on the other coordinate
rotate_right_mirrored(self) == Pt(-self.y, self.x)

\* Point::rotate_right
rotate_right(self) == Pt(self.y, -self.x)

\* Point::rotate_left
rotate_left(self) == Pt(-self.y, self.x)

\* enum Direction
Direction == {"Right", "Left", "Up", "Down"}

\* Direction::turn_right turning the other way round
turn_right_widdershins(self) ==
    CASE self = "Up" -> "Left"
      [] self = "Right" -> "Up"
      [] self = "Down" -> "Right"
      [] self = "Left" -> "Down"

\* Direction::turn_right
turn_right(self) ==
    CASE self = "Up" -> "Right"
      [] self = "Right" -> "Down"
      [] self = "Down" -> "Left"
      [] self = "Left" -> "Up"

\* Direction::turn_left
turn_left(self) ==
    CASE self = "Up" -> "Left"
      [] self = "Left" -> "Down"
      [] self = "Down" -> "Right"
      [] self = "Right" -> "Up"

\* Direction::reverse
reverse(self) ==
    CASE self = "Up" -> "Down"
      [] self = "Left" -> "Right"
      [] self = "Down" -> "Up"
      [] self = "Right" -> "Left"

\* the longest run of turns of a direction
MaxTurns == 4

\* the largest coordinate of an argument and the longest run of rotations
MaxCoord == 1
MaxRotations == 4

Coords == (-MaxCoord)..MaxCoord

InitGeom ==
    /\ phase = "geom"
    /\ input = <<>>
    /\ tiles = <<>>
    /\ width = 0
    /\ height = 0
    /\ origin = "none"
    /\ result = NoResult
    /\ scan = ScanIdle
    /\ nav = NavIdle
    /\ crt = CrtIdle
    /\ space = SpaceIdle
    /\ \/ \E dim \in {3, 4} :
              \E point \in [1..dim -> Coords] :
                  geom = [status |-> "vector", self |-> point]
       \/ \E x \in Coords, y \in Coords :
              geom = [status |-> "point", start |-> Pt(x, y), point |-> Pt(x, y),
                      turns |-> <<>>]
       \/ \E d \in Direction :
              geom = [status |-> "direction", start |-> d, direction |-> d, turns |-> <<>>]

\* self.adjacent(), collected in the order the iterator yields
Adjacent ==
    /\ phase = "geom"
    /\ geom.status = "vector"
    /\ geom' = [status |-> "adjacent", self |-> geom.self, yielded |-> adjacent(geom.self)]
    /\ UNCHANGED <<phase, input, tiles, width, height, origin, result, scan, nav, crt, space>>

\* point = point.rotate_right()
RotateRight ==
    /\ phase = "geom"
    /\ geom.status = "point"
    /\ Len(geom.turns) < MaxRotations
    /\ geom' = [geom EXCEPT !.point = rotate_right(geom.point),
                            !.turns = Append(geom.turns, "right")]
    /\ UNCHANGED <<phase, input, tiles, width, height, origin, result, scan, nav, crt, space>>

\* point = point.rotate_left()
RotateLeft ==
    /\ phase = "geom"
    /\ geom.status = "point"
    /\ Len(geom.turns) < MaxRotations
    /\ geom' = [geom EXCEPT !.point = rotate_left(geom.point),
                            !.turns = Append(geom.turns, "left")]
    /\ UNCHANGED <<phase, input, tiles, width, height, origin, result, scan, nav, crt, space>>

\* direction = direction.turn_right()
TurnRight ==
    /\ phase = "geom"
    /\ geom.status = "direction"
    /\ Len(geom.turns) < MaxTurns
    /\ geom' = [geom EXCEPT !.direction = turn_right(geom.direction),
                            !.turns = Append(geom.turns, "right")]
    /\ UNCHANGED <<phase, input, tiles, width, height, origin, result, scan, nav, crt, space>>

\* direction = direction.turn_left()
TurnLeft ==
    /\ phase = "geom"
    /\ geom.status = "direction"
    /\ Len(geom.turns) < MaxTurns
    /\ geom' = [geom EXCEPT !.direction = turn_left(geom.direction),
                            !.turns = Append(geom.turns, "left")]
    /\ UNCHANGED <<phase, input, tiles, width, height, origin, result, scan, nav, crt, space>>

\* direction = direction.reverse()
Reverses ==
    /\ phase = "geom"
    /\ geom.status = "direction"
    /\ Len(geom.turns) < MaxTurns
    /\ geom' = [geom EXCEPT !.direction = reverse(geom.direction),
                            !.turns = Append(geom.turns, "reverse")]
    /\ UNCHANGED <<phase, input, tiles, width, height, origin, result, scan, nav, crt, space>>

NextGeom == Adjacent \/ RotateRight \/ RotateLeft \/ TurnRight \/ TurnLeft \/ Reverses

SpecGeom == InitGeom /\ [][NextGeom]_vars

(***************************************************************************)
(* Claims about the life of a Map (specification Spec).                    *)
(***************************************************************************)
Recognised(ch) == ch \in {"#", "."}
AllRecognised(lines) ==
    \A i \in 1..Len(lines) : \A j \in 1..Len(lines[i]) : Recognised(lines[i][j])
NonEmptyLines(lines) == SelectSeq(lines, LAMBDA l : l # <<>>)
\* a rectangular text block: every line non-empty, one length, known glyphs
IsBlock(lines) ==
    /\ \A i \in 1..Len(lines) : lines[i] # <<>> /\ Len(lines[i]) = Len(lines[1])
    /\ AllRecognised(lines)
\* the text of the lines, each followed by a newline
TextOf(lines) == Flatten([i \in 1..Len(lines) |-> lines[i] \o <<"\n">>])
\* the first character, in reading order, that is no glyph
FirstBadChar(lines) ==
    LET flat == Flatten(lines)
        bad == {i \in 1..Len(flat) : ~Recognised(flat[i])} IN
    flat[CHOOSE i \in bad : \A j \in bad : i <= j]

\* C3: every Map that exists holds exactly width * height tiles, whichever
\* constructor built it and whatever writes and callbacks ran on it.
C3_TilesLenIsArea == origin # "none" => Len(tiles) = width * height

\* C3 witness: a map with tiles, built and then written to.
C3_Witness ==
    /\ origin = "written"
    /\ result.op = "for_each_point_mut"
    /\ width = 2
    /\ height = 2
    /\ Len(tiles) = 4

\* C4: an index operation at a coordinate outside [0,width) x [0,height)
\* always faults.
C4_OutOfBoundsIndexFaults ==
    (result.op \in {"index", "index_mut"}
        /\ ~in_bounds(width, height, result.at)) => result.panic

\* C5: a rectangular block of glyphs, built into a Map and displayed, comes
\* back as the same lines in the same order, a newline after each.
C5_RoundTrip ==
    (origin = "try_from" /\ result.op = "display" /\ IsBlock(input))
        => result.val = TextOf(input)

\* C5 witness: a displayed two-line block whose lines differ.
C5_Witness ==
    /\ origin = "try_from"
    /\ result.op = "display"
    /\ IsBlock(input)
    /\ Len(input) = 2
    /\ input[1] # input[2]
    /\ Len(input[1]) = 2

\* C6: for H >= 1 non-empty lines of one length W, width = W, height = H,
\* tile (x, y) is the conversion of character x of line H-1-y, top_left()
\* indexes the first character of the first line and bottom_left() the
\* first character of the last.
C6_TextOrientation ==
    (result.op = "try_from" /\ Len(input) >= 1 /\ IsBlock(input)) =>
        /\ result.ok
        /\ width = Len(input[1])
        /\ height = Len(input)
        /\ \A x \in 0..(width - 1), y \in 0..(height - 1) :
               /\ ~IndexPair(tiles, width, x, y).panic
               /\ IndexPair(tiles, width, x, y).val
                      = TileFromChar(input[height - y][x + 1]).val
        /\ IndexPoint(tiles, width, top_left(height)).val
               = TileFromChar(input[1][1]).val
        /\ bottom_left = Pt(0, 0)
        /\ IndexPoint(tiles, width, bottom_left).val
               = TileFromChar(input[Len(input)][1]).val

\* C6 witness: a parsed block of two different lines.
C6_Witness ==
    /\ result.op = "try_from"
    /\ IsBlock(input)
    /\ Len(input) = 2
    /\ Len(input[1]) = 2
    /\ input[1][1] # input[2][1]

\* C7: two non-empty lines of different lengths, every character a glyph:
\* try_from returns NotRectangular and no Map.
C7_JaggedRejected ==
    (/\ result.op = "try_from"
     /\ AllRecognised(input)
     /\ \E i, j \in 1..Len(input) :
            /\ input[i] # <<>>
            /\ input[j] # <<>>
            /\ Len(input[i]) # Len(input[j]))
        => (/\ ~result.ok
            /\ result.kind = "NotRectangular"
            /\ phase = "failed"
            /\ origin = "none")

\* C7 witness: the short line is in the middle, between two equal lines.
C7_Witness ==
    /\ result.op = "try_from"
    /\ AllRecognised(input)
    /\ Len(input) = 3
    /\ Len(input[1]) = 2
    /\ Len(input[2]) = 1
    /\ Len(input[3]) = 2
    /\ result.kind = "NotRectangular"

\* C8 as stated: a returned Map has as many rows as the input has lines,
\* and every input line has width characters.
C8_ShapeKept_Original ==
    (result.op = "try_from" /\ result.ok) =>
        /\ height = Len(input)
        /\ \A i \in 1..Len(input) : Len(input[i]) = width

\* C8 amended: a returned Map has as many rows as the input has non-empty
\* lines, and every non-empty line has width characters (empty lines are
\* skipped; nothing else is padded, truncated or dropped).
C8_ShapeKept ==
    (result.op = "try_from" /\ result.ok) =>
        /\ height = Len(NonEmptyLines(input))
        /\ \A i \in 1..Len(input) :
               input[i] # <<>> => Len(input[i]) = width
        /\ Len(tiles) = SumLen(input)

\* C8 witness: a Map built from text with an empty line between two rows.
C8_Witness ==
    /\ result.op = "try_from"
    /\ result.ok
    /\ Len(input) = 3
    /\ input[2] = <<>>
    /\ Len(input[1]) = 2
    /\ height = 2

\* C9: when some character is no glyph, try_from returns TileConversion
\* with the error of the first such character in reading order, and no
\* Map, also when the text is not rectangular.
C9_FirstTileErrorWins ==
    (result.op = "try_from" /\ ~AllRecognised(input)) =>
        /\ ~result.ok
        /\ result.kind = "TileConversion"
        /\ result.err = TileFromChar(FirstBadChar(input)).err
        /\ phase = "failed"
        /\ origin = "none"

\* C9 witness: a jagged text with two different bad characters in one line.
C9_Witness ==
    /\ result.op = "try_from"
    /\ Len(input) = 2
    /\ Len(input[1]) = 1
    /\ Recognised(input[1][1])
    /\ Len(input[2]) = 3
    /\ input[2][2] = "y"
    /\ input[2][3] = "x"
    /\ result.kind = "TileConversion"
    /\ result.err = "y"

(***************************************************************************)
(* Claims about reachable_from (specification SpecReach).                  *)
(***************************************************************************)
GridPts == {Pt(x, y) : x \in 0..(width - 1), y \in 0..(height - 1)}
InGrid(p) == p.x >= 0 /\ p.x < width /\ p.y >= 0 /\ p.y < height
TileAt(p) == tiles[p.x + p.y * width + 1]
Neighbours(p) == {PointAdd(p, DirectionIter[k]) : k \in 1..Len(DirectionIter)}
Visited == {scan.visits[k] : k \in 1..Len(scan.visits)}

\* the in-bounds points that are the start or next to a Free point of the set
RECURSIVE Flood(_)
Flood(R) ==
    LET next == R \cup {n \in UNION {Neighbours(p) : p \in {q \in R : TileAt(q) = "Free"}} :
                           InGrid(n)} IN
    IF next = R THEN R ELSE Flood(next)
Reached == Flood({scan.start})
\* every Free tile reached from the start has its four neighbours in bounds
StaysInBounds ==
    \A p \in Reached : TileAt(p) = "Free" => \A n \in Neighbours(p) : InGrid(n)

\* C2: when the flood never touches an edge and the visitor never says
\* stop, the scan does not fault, reports only non-Obstructed points that
\* are the start or next to a reached Free tile, and has reported all of
\* them when it returns.
C2_ReportsExactlyReached ==
    (phase = "scan" /\ scan.status # "stopped") =>
        LET reached == Reached
            expected == {p \in reached : TileAt(p) # "Obstructed"} IN
        (\A p \in reached :
             TileAt(p) = "Free" => \A n \in Neighbours(p) : InGrid(n)) =>
            /\ scan.status # "panicked"
            /\ Visited \subseteq expected
            /\ scan.status = "done" => Visited = expected

\* C2 witness: a finished scan over two Free tiles inside an Obstructed
\* border.
C2_Witness ==
    /\ phase = "scan"
    /\ scan.status = "done"
    /\ StaysInBounds
    /\ width = 4
    /\ height = 3
    /\ TileAt(Pt(1, 1)) = "Free"
    /\ TileAt(Pt(2, 1)) = "Free"
    /\ scan.start = Pt(1, 1)
    /\ Visited = {Pt(1, 1), Pt(2, 1)}

\* the non-Obstructed points joined to the points of R by steps between
\* non-Obstructed neighbours
RECURSIVE Region(_)
Region(R) ==
    LET next == R \cup {n \in UNION {Neighbours(p) : p \in R} :
                           InGrid(n) /\ TileAt(n) # "Obstructed"} IN
    IF next = R THEN R ELSE Region(next)
OtherRegion ==
    LET mine == Region({scan.start}) IN
    {p \in GridPts : TileAt(p) # "Obstructed" /\ p \notin mine}
\* one Obstructed tile, and non-Obstructed tiles on both sides of it; the
\* start is one of them
SingleTileSeparates ==
    /\ Cardinality({k \in 1..Len(tiles) : tiles[k] = "Obstructed"}) = 1
    /\ TileAt(scan.start) # "Obstructed"
    /\ OtherRegion # {}

\* C10: with one Obstructed tile between two regions, the visitor is never
\* handed a point of the region the scan did not start in (nor a tile of it
\* under another point's name).
C10_ObstructionBounds ==
    (phase = "scan" /\ SingleTileSeparates) =>
        LET other == OtherRegion IN
        \A k \in 1..Len(scan.visits) :
            /\ scan.visits[k] \notin other
            /\ \A q \in other :
                   point2index(width, scan.visits[k].x, scan.visits[k].y)
                       # point2index(width, q.x, q.y)

\* C10 witness: a scan that ran to its end on a column Halt, Free,
\* Obstructed, Free, started on the Free tile below the obstruction.
C10_Witness ==
    /\ phase = "scan"
    /\ SingleTileSeparates
    /\ scan.status = "done"
    /\ width = 1
    /\ height = 4
    /\ tiles = <<"Halt", "Free", "Obstructed", "Free">>
    /\ scan.start = Pt(0, 1)
    /\ Len(scan.visits) = 2

\* C11: no point is handed to the visitor twice in one call.
C11_VisitedOnce ==
    phase = "scan" =>
        \A j, k \in 1..Len(scan.visits) :
            scan.visits[j] = scan.visits[k] => j = k

\* C11 witness: (2,2) is a neighbour of the Free tiles (1,2) and (2,1), both
\* expanded before it is dequeued, so it was queued twice: it has been
\* reported once and its second copy is still in the queue.
C11_Witness ==
    /\ phase = "scan"
    /\ width = 3
    /\ height = 4
    /\ \A p \in GridPts : TileAt(p) = "Free" <=> (p.x \in 1..2 /\ p.y \in 1..2)
    /\ scan.start = Pt(1, 1)
    /\ Pt(2, 2) \in Visited
    /\ \E k \in 1..Len(scan.queue) : scan.queue[k] = Pt(2, 2)

\* C12: once the visitor has returned true, it is not called again and the
\* call is over.
C12_StopEndsScan ==
    [][(phase = "scan" /\ scan.stop) =>
           (scan.status = "stopped" /\ scan'.visits = scan.visits)]_vars

\* C12 witness: the visitor said stop at its second call, with points still
\* in the queue.
C12_Witness ==
    /\ phase = "scan"
    /\ scan.status = "stopped"
    /\ scan.stop
    /\ Len(scan.visits) = 2
    /\ scan.queue # <<>>

(***************************************************************************)
(* Claims about navigate (specification SpecNav).                          *)
(***************************************************************************)
\* the length of the shortest route from `from` to `to` whose every step
\* lands on an in-bounds tile that is Free or Halt; -1 when there is none.
\* seen: the points at most n steps away, frontier: those exactly n away.
RECURSIVE RouteLen(_, _, _, _)
RouteLen(seen, frontier, to, n) ==
    IF to \in frontier THEN n
    ELSE IF frontier = {} THEN -1
    ELSE LET next == {q \in UNION {Neighbours(p) : p \in frontier} :
                         /\ q \notin seen
                         /\ InGrid(q)
                         /\ TileAt(q) \in {"Free", "Halt"}} IN
         RouteLen(seen \cup next, next, to, n + 1)
ShortestRoute == RouteLen({nav.from}, {nav.from}, nav.to, 0)

RECURSIVE PointAfter(_, _, _)
PointAfter(p, path, k) ==
    IF k = 0 THEN p ELSE PointAdd(PointAfter(p, path, k - 1), path[k])

\* C14: the debug assertion on the path never fires, and a returned path,
\* followed from `from`, steps only onto in-bounds tiles that are not
\* Obstructed, ends at `to` and is at least the Manhattan distance long.
C14_PathLeadsToGoal ==
    phase = "nav" =>
        /\ nav.status # "panicked"
        /\ nav.status = "found" =>
               /\ PointAfter(nav.from, nav.path, Len(nav.path)) = nav.to
               /\ \A k \in 1..Len(nav.path) :
                      LET p == PointAfter(nav.from, nav.path, k) IN
                      InGrid(p) /\ TileAt(p) # "Obstructed"
               /\ Len(nav.path) >= manhattan(nav.to, nav.from)

\* C14 witness: a path with a turn in it, from the top left corner to the
\* bottom right one, past an Obstructed tile.
C14_Witness ==
    /\ phase = "nav"
    /\ nav.status = "found"
    /\ width = 3
    /\ height = 2
    /\ TileAt(Pt(1, 1)) = "Obstructed"
    /\ nav.from = Pt(0, 1)
    /\ nav.to = Pt(2, 0)
    /\ Len(nav.path) = 3
    /\ \E j, k \in 1..3 : nav.path[j] # nav.path[k]

(***************************************************************************)
(* Claims about chinese_remainder (specifications SpecCrt, SpecConstraint).*)
(***************************************************************************)
RECURSIVE Gcd(_, _)
Gcd(a, b) == IF b = 0 THEN a ELSE Gcd(b, a % b)
Moduli == [k \in 1..Len(crt.constraints) |-> crt.constraints[k].modulus]
PairwiseCoprime ==
    \A j, k \in 1..Len(Moduli) : j < k => Gcd(Moduli[j], Moduli[k]) = 1
RECURSIVE ProductOf(_, _)
ProductOf(ms, k) == IF k > Len(ms) THEN 1 ELSE ms[k] * ProductOf(ms, k + 1)
CrtOver == crt.status \in {"some", "none", "panicked"}

\* C15: for pairwise coprime moduli with remainders 0 <= r < m (and a
\* product that is a value of N), the call returns Some(n) with
\* 0 <= n < the product of the moduli and n mod m = r for every constraint.
C15_SolvesConstraints ==
    (phase = "crt" /\ CrtOver /\ PairwiseCoprime /\ Fits(ProductOf(Moduli, 1))) =>
        /\ crt.status = "some"
        /\ crt.value >= 0
        /\ crt.value < ProductOf(Moduli, 1)
        /\ \A k \in 1..Len(crt.constraints) :
               crt.value % crt.constraints[k].modulus = crt.constraints[k].remainder

\* C16: the call returns None when the moduli (with a product that is a
\* value of N) are not pairwise coprime, and never returns None when they
\* are.
C16_NoneIffNotCoprime ==
    (phase = "crt" /\ CrtOver /\ Fits(ProductOf(Moduli, 1))) =>
        /\ ~PairwiseCoprime => crt.status = "none"
        /\ PairwiseCoprime => crt.status # "none"

\* C17: new_invert_remainder(m, k) has modulus m and a remainder r with
\* 0 <= r < m and r + k divisible by m.
C17_InvertedRemainderInRange ==
    (phase = "constraint" /\ crt.status # "args") =>
        /\ crt.status = "made"
        /\ crt.constraint.modulus = crt.modulus
        /\ crt.constraint.remainder >= 0
        /\ crt.constraint.remainder < crt.modulus
        /\ (crt.constraint.remainder + crt.invert_remainder) % crt.modulus = 0

(***************************************************************************)
(* Claims about the Conway space of day 17 (specification SpecConway).     *)
(***************************************************************************)
AfterSuccessor == phase = "conway" /\ space.status = "successor"

\* C18 as stated: after successor the tracked box of the space (3D or 4D)
\* has neither shrunk nor grown by more than 1 on any axis, compared with
\* the box of the space it was computed from.
C18_BoxWithinOne_Original ==
    AfterSuccessor =>
        \A i \in Axes(space.min) :
            /\ Abs(space.min[i] - space.before.min[i]) <= 1
            /\ Abs(space.max[i] - space.before.max[i]) <= 1

\* C18 amended: after successor the tracked box of the space (3D or 4D) has
\* grown by at most 1 on every axis and still contains the default point;
\* it may have shrunk by any amount.
C18_BoxGrowsAtMostOne ==
    AfterSuccessor =>
        \A i \in Axes(space.min) :
            /\ space.min[i] >= space.before.min[i] - 1
            /\ space.max[i] <= space.before.max[i] + 1
            /\ space.min[i] <= 0
            /\ space.max[i] >= 0

\* a successor whose box has grown by exactly 1 on an axis, downwards and upwards
C18_Witness ==
    /\ AfterSuccessor
    /\ Len(space.min) = 4
    /\ space.min[4] = space.before.min[4] - 1
    /\ space.max[4] = space.before.max[4] + 1
    /\ space.max[1] = space.before.max[1] + 1

(***************************************************************************)
(* Claims about the functions of points (specification SpecGeom).          *)
(***************************************************************************)
\* the points within 1 of p on every axis, p itself included
UnitBox(p) == {q \in [Axes(p) -> (-MaxCoord - 1)..(MaxCoord + 1)] :
                   \A i \in Axes(p) : Abs(q[i] - p[i]) <= 1}

Yielded == {geom.yielded[k] : k \in 1..Len(geom.yielded)}

AllTurns(n, turn) == [k \in 1..n |-> turn]

\* C20: for every point p of the range checked, four applications of
\* rotate_right return p, four applications of rotate_left return p,
\* rotate_left undoes rotate_right and rotate_right undoes rotate_left,
\* rotate_right takes (x, y) to (y, -x) and rotate_left takes (x, y) to
\* (-y, x).
C20_RotationIdentities ==
    (phase = "geom" /\ geom.status = "point") =>
        /\ geom.turns = AllTurns(4, "right") => geom.point = geom.start
        /\ geom.turns = AllTurns(4, "left") => geom.point = geom.start
        /\ geom.turns = <<"right", "left">> => geom.point = geom.start
        /\ geom.turns = <<"left", "right">> => geom.point = geom.start
        /\ geom.turns = <<"right">> => geom.point = Pt(geom.start.y, -geom.start.x)
        /\ geom.turns = <<"left">> => geom.point = Pt(-geom.start.y, geom.start.x)

\* a point off both axes has been turned right four times
C20_Witness ==
    /\ phase = "geom"
    /\ geom.status = "point"
    /\ geom.start = Pt(1, -1)
    /\ geom.turns = AllTurns(4, "right")
    /\ geom.point = Pt(1, -1)

\* the cycle of the directions clockwise: Up, Right, Down, Left, Up
Clockwise(d) ==
    LET cycle == <<"Up", "Right", "Down", "Left">>
        k == CHOOSE k \in 1..4 : cycle[k] = d
    IN  cycle[(k % 4) + 1]

\* C21: for every Direction d, turn_left undoes turn_right, four
\* turn_rights return to d, turn_right follows the cycle Up, Right, Down,
\* Left, Up, and reverse gives what two turn_rights give, a direction whose
\* unit delta is the negated delta of d.
C21_DirectionCycle ==
    (phase = "geom" /\ geom.status = "direction") =>
        /\ geom.turns = <<"right", "left">> => geom.direction = geom.start
        /\ geom.turns = AllTurns(4, "right") => geom.direction = geom.start
        /\ geom.turns = <<"right">> => geom.direction = Clockwise(geom.start)
        /\ geom.turns = <<"right", "right">> =>
               geom.direction = Clockwise(Clockwise(geom.start))
        /\ geom.turns = <<"reverse">> =>
               /\ geom.direction = Clockwise(Clockwise(geom.start))
               /\ deltas(geom.direction)[1] = -deltas(geom.start)[1]
               /\ deltas(geom.direction)[2] = -deltas(geom.start)[2]

\* Left has been turned right and then left, and is Left again
C21_Witness ==
    /\ phase = "geom"
    /\ geom.status = "direction"
    /\ geom.start = "Left"
    /\ geom.turns = <<"right", "left">>
    /\ geom.direction = "Left"

(***************************************************************************)
(* Claims about the bounds test and the walks of a Map (specification      *)
(* SpecOps).                                                               *)
(***************************************************************************)
\* C22: in_bounds(p) is true exactly when 0 <= p.x < width and
\* 0 <= p.y < height, faults for no point (negative coordinates and the
\* 0x0 map included), and when it is true, indexing the map at p succeeds
\* and yields the tile stored at linear index p.x + p.y * width.
C22_InBoundsGuardsIndex ==
    (result.op = "in_bounds") =>
        /\ phase = "built"
        /\ result.val = (0 <= result.at.x /\ result.at.x < width
                         /\ 0 <= result.at.y /\ result.at.y < height)
        /\ result.val =>
               /\ ~result.panic
               /\ result.at.x + (result.at.y * width) < Len(tiles)
               /\ result.tile = tiles[result.at.x + (result.at.y * width) + 1]

\* the top right corner of a 2x2 map of mixed tiles was found in bounds and read
C22_Witness ==
    /\ result.op = "in_bounds"
    /\ width = 2
    /\ height = 2
    /\ tiles = <<"False", "False", "False", "True">>
    /\ result.at = Pt(1, 1)
    /\ result.val
    /\ result.tile = "True"

Walked == result.op \in {"for_each_point", "for_each_point_mut"}

\* C23: for_each_point and for_each_point_mut call the closure width *
\* height times, once per tile in increasing storage order (y ascending, x
\* ascending within a row); the point of each call is the in-bounds
\* coordinate whose linear index is that of the tile of the call, and
\* after for_each_point_mut every tile is what the closure made of the tile
\* it was called with.
C23_WalkVisitsEachTileOnce ==
    Walked =>
        LET calls == result.calls IN
        /\ Len(calls) = width * height
        /\ Len(calls) = Len(tiles)
        /\ \A k \in 1..Len(calls) :
               /\ 0 <= calls[k].point.x /\ calls[k].point.x < width
               /\ 0 <= calls[k].point.y /\ calls[k].point.y < height
               /\ calls[k].point.x + (calls[k].point.y * width) = k - 1
               /\ \A j \in 1..(k - 1) :
                      \/ calls[j].point.y < calls[k].point.y
                      \/ /\ calls[j].point.y = calls[k].point.y
                         /\ calls[j].point.x < calls[k].point.x
               /\ result.op = "for_each_point" =>
                      /\ calls[k].tile = tiles[k]
                      /\ IndexPoint(tiles, width, calls[k].point).val = calls[k].tile
               /\ result.op = "for_each_point_mut" =>
                      tiles[k] = UpdateAt(result.at, calls[k].tile, calls[k].point)

\* for_each_point_mut has walked a 2x2 map and its closure changed the tile at (1, 0)
C23_Witness ==
    /\ result.op = "for_each_point_mut"
    /\ width = 2
    /\ height = 2
    /\ result.at = Pt(1, 0)
    /\ Len(result.calls) = 4
    /\ result.calls[2] = [tile |-> "False", point |-> Pt(1, 0)]
    /\ result.calls[3] = [tile |-> "True", point |-> Pt(0, 1)]
    /\ tiles = <<"False", "True", "True", "False">>

\* the map was built from no lines (a text) or from no rows (a 2d array)
FromNothing ==
    \/ origin = "try_from" /\ input = <<>>
    \/ origin = "from" /\ height = 0

\* C24: building a Map from an input of zero lines returns Ok with width 0,
\* height 0 and no tiles, not an error; for that map in_bounds is false for
\* every point.
C24_EmptyInputEmptyMap ==
    /\ (result.op = "try_from" /\ input = <<>>) =>
           /\ result.ok
           /\ phase = "built"
           /\ width = 0 /\ height = 0 /\ tiles = <<>>
    /\ (result.op = "from" /\ result.source = <<>>) =>
           /\ ~result.panic
           /\ phase = "built"
           /\ width = 0 /\ height = 0 /\ tiles = <<>>
    /\ (result.op = "in_bounds" /\ FromNothing) =>
           /\ width = 0 /\ height = 0 /\ tiles = <<>>
           /\ ~result.val

\* the map built from the empty text was asked about its origin corner
C24_Witness ==
    /\ origin = "try_from"
    /\ input = <<>>
    /\ phase = "built"
    /\ width = 0
    /\ height = 0
    /\ result.op = "in_bounds"
    /\ result.at = Pt(0, 0)
    /\ ~result.val

(***************************************************************************)
(* Further claims about reachable_from (specification SpecReach).          *)
(***************************************************************************)
\* C25: for every grid and every in-bounds start, reachable_from never
\* leaves the grid: every point handed to the visitor is in bounds (a
\* neighbour beyond an edge is dropped, not taken for a tile of the next
\* row) and the scan ends without a fatal fault.
C25_ScanStaysInGrid ==
    (phase = "scan") =>
        /\ scan.status # "panicked"
        /\ \A k \in 1..Len(scan.visits) : in_bounds(width, height, scan.visits[k])

\* C25, its first half alone: every point handed to the visitor is in bounds.
C25_VisitsInBounds ==
    (phase = "scan") =>
        \A k \in 1..Len(scan.visits) : in_bounds(width, height, scan.visits[k])

(***************************************************************************)
(* Further claims about navigate (specification SpecNav).                  *)
(***************************************************************************)
\* C26: at every step of navigate the open set holds at most one node per
\* position, and the cost of each node is the cheapest_path_cost recorded
\* for its position (no node is stale), so a node is popped and expanded
\* with the cheapest known cost of its position.
C26_OpenSetFresh ==
    (phase = "nav") =>
        /\ \A a \in nav.open_set : \A b \in nav.open_set :
               a.position = b.position => a = b
        /\ \A a \in nav.open_set :
               /\ a.position \in DOMAIN nav.cheapest_path_cost
               /\ a.cost = nav.cheapest_path_cost[a.position]

\* on the open 3x2 grid two nodes of cost 2 wait in the open set, next to
\* positions that were reached more cheaply before
C26_Witness ==
    /\ phase = "nav"
    /\ nav.status = "running"
    /\ width = 3 /\ height = 2
    /\ \A i \in 1..6 : tiles[i] = "Free"
    /\ nav.from = Pt(0, 0)
    /\ Cardinality({a \in nav.open_set : a.cost = 2}) = 2
    /\ Pt(1, 1) \in {a.position : a \in nav.open_set}
    /\ Cardinality(DOMAIN nav.cheapest_path_cost) >= 5

\* the nodes pushed by a step
Pushed == nav'.open_set \ nav.open_set

\* a position is pushed only when its recorded cheapest cost has gone down
\* (an absent cost counting as above every cost)
PushOnlyOnDecrease ==
    \A a \in Pushed :
        \/ a.position \notin DOMAIN nav.cheapest_path_cost
        \/ nav'.cheapest_path_cost[a.position] < nav.cheapest_path_cost[a.position]

\* C28: navigate terminates on every finite grid for every from and to
\* (reachable or not, Obstructed or out of bounds): a position is pushed
\* onto the open set only when its recorded cheapest cost strictly
\* decreases, and in the end the open set is empty (None) or the goal was
\* popped (Some).
C28_NavigateTerminates ==
    /\ [][PushOnlyOnDecrease]_vars
    /\ <>(nav.status \in {"found", "none"})

\* navigate gave up on a goal out of bounds after it had explored the three
\* tiles of a 2x2 grid that an Obstructed tile leaves to reach
C28_Witness ==
    /\ phase = "nav"
    /\ nav.status = "none"
    /\ width = 2 /\ height = 2
    /\ tiles = <<"Free", "Free", "Free", "Obstructed">>
    /\ nav.from = Pt(0, 0)
    /\ nav.to = Pt(2, 1)
    /\ nav.open_set = {}
    /\ DOMAIN nav.cheapest_path_cost = {Pt(0, 0), Pt(1, 0), Pt(0, 1)}

(***************************************************************************)
(* Further claims about the Conway space (specification SpecConway).       *)
(***************************************************************************)
\* the active neighbours of p in the space before the step, counted on the
\* unbounded grid
ActiveAround(p) ==
    Cardinality({q \in space.before.active :
                    q # p /\ \A i \in Axes(p) : Abs(q[i] - p[i]) <= 1})

\* the rule of the cellular automaton for the cell p
RuleSaysActive(p) ==
    IF p \in space.before.active THEN ActiveAround(p) \in {2, 3}
    ELSE ActiveAround(p) = 3

\* every cell that has an active cell within two steps on every axis; no
\* other cell has an active neighbour
Surroundings ==
    UNION {{[i \in Axes(p) |-> p[i] + d[i]] : d \in [Axes(p) -> -2..2]} :
           p \in space.before.active}

\* C27: after new() and after every successor() every active cell lies in
\* the tracked box [min, max]; the active set of a successor is the rule
\* applied to the unbounded grid of the predecessor (active stays active
\* with 2 or 3 active neighbours, inactive becomes active with exactly 3,
\* all else inactive), so no cell outside the scanned box would have become
\* active; the predecessor is left as it was.
C27_SuccessorIsTheRule ==
    (phase = "conway" /\ space.status \in {"new", "successor"}) =>
        /\ \A p \in space.active :
               \A i \in Axes(p) : space.min[i] <= p[i] /\ p[i] <= space.max[i]
        /\ \A p \in space.before.active :
               \A i \in Axes(p) :
                   space.before.min[i] <= p[i] /\ p[i] <= space.before.max[i]
        /\ space.status = "successor" =>
               space.active = {p \in Surroundings : RuleSaysActive(p)}

\* a second successor in three dimensions with a cell that stayed active
\* and a cell born two steps off the plane the space started from, outside
\* the box of its predecessor
C27_Witness ==
    /\ AfterSuccessor
    /\ space.steps = 2
    /\ Len(space.min) = 3
    /\ \E p \in space.active : p[3] = 2 /\ space.before.max[3] = 1
    /\ \E p \in space.active : p \in space.before.active
    /\ \E p \in space.before.active : p \notin space.active

\* the number of steps of the shortest 4-connected path from the start to
\* the point `to` whose every tile but the last is Free and in bounds; -1
\* when there is none.  seen: the points at most n steps away, frontier:
\* those exactly n away.
RECURSIVE FreeDistance(_, _, _, _)
FreeDistance(seen, frontier, to, n) ==
    IF to \in frontier THEN n
    ELSE IF frontier = {} THEN -1
    ELSE LET next == {q \in UNION {Neighbours(p) :
                                      p \in {f \in frontier : TileAt(f) = "Free"}} :
                         q \notin seen /\ InGrid(q)} IN
         FreeDistance(seen \cup next, next, to, n + 1)
DistanceFromStart(p) == FreeDistance({scan.start}, {scan.start}, p, 0)

\* C29: on a grid where the scan stays in bounds, reachable_from reports
\* the points in nondecreasing order of their shortest 4-connected distance
\* from the start through Free tiles, the start first.
C29_ReportsInBreadthFirstOrder ==
    (phase = "scan" /\ StaysInBounds /\ scan.visits # <<>>) =>
        LET d == [k \in 1..Len(scan.visits) |-> DistanceFromStart(scan.visits[k])] IN
        /\ scan.visits[1] = scan.start
        /\ d[1] = 0
        /\ \A k \in 1..(Len(scan.visits) - 1) : d[k] >= 0 /\ d[k] <= d[k + 1]

\* a finished scan that stayed in bounds and reported a point two steps
\* from the start after two different points one step from it
C29_Witness ==
    /\ phase = "scan"
    /\ StaysInBounds
    /\ scan.status = "done"
    /\ \E j, k, l \in 1..Len(scan.visits) :
           /\ j < k /\ k < l
           /\ DistanceFromStart(scan.visits[j]) = 1
           /\ DistanceFromStart(scan.visits[k]) = 1
           /\ DistanceFromStart(scan.visits[l]) = 2

\* a.cmp(b) of AStarNode is Equal exactly when neither node is greater
Comparable(a, b) ==
    \/ a = b /\ ~NodeGreater(a, b) /\ ~NodeGreater(b, a)
    \/ a # b /\ NodeGreater(a, b) /\ ~NodeGreater(b, a)
    \/ a # b /\ NodeGreater(b, a) /\ ~NodeGreater(a, b)

\* C30: the order of the open set is a total order consistent with
\* equality: of two nodes exactly one is greater unless they are the same
\* node, and the order is transitive; the node popped is the only greatest
\* one: no node of the open set has a lower cost, and the nodes of its cost
\* come in the lexicographic (x, then y) order of their Points, the last of
\* them first.  So a second navigate call on the same grid with the same
\* from and to returns what the first returned.
C30_TotalOrderSameRoute ==
    phase = "nav" =>
        /\ nav.status = "running" =>
               /\ \A a \in nav.open_set, b \in nav.open_set : Comparable(a, b)
               /\ \A a \in nav.open_set, b \in nav.open_set, c \in nav.open_set :
                      NodeGreater(a, b) /\ NodeGreater(b, c) => NodeGreater(a, c)
               /\ nav.open_set # {} =>
                      /\ HeapTops(nav.open_set) = {HeapTop(nav.open_set)}
                      /\ \A b \in nav.open_set \ {HeapTop(nav.open_set)} :
                             \/ HeapTop(nav.open_set).cost < b.cost
                             \/ /\ HeapTop(nav.open_set).cost = b.cost
                                /\ PointLess(b.position, HeapTop(nav.open_set).position)
        /\ (nav.status \in {"found", "none"} /\ nav.earlier # NoCall) =>
               /\ nav.status = nav.earlier.status
               /\ nav.path = nav.earlier.path

\* a second call has returned a route of two steps or more between two
\* points of an all-Free grid that differ in x and in y, where nodes of
\* equal cost were in the open set together
C30_Witness ==
    /\ phase = "nav"
    /\ nav.status = "found"
    /\ nav.earlier.status = "found"
    /\ Len(nav.path) >= 2
    /\ nav.from.x # nav.to.x
    /\ nav.from.y # nav.to.y
    /\ \A i \in DOMAIN tiles : tiles[i] = "Free"

=============================================================================
